---- MODULE Spec2Model ----
(***************************************************************************)
(* The in-memory health-record store of the first-aid assistant            *)
(* (utils/health_records.py) and the Streamlit handlers of app.py that     *)
(* drive it.  st.session_state.health_records is the list health_records;  *)
(* every store function is an operator over that list, and every handler   *)
(* is one action.                                                          *)
(***************************************************************************)
EXTENDS Integers, Sequences, FiniteSets, TLC

(* ------------------------------ bounds -------------------------------- *)
\* ids handed out by uuid.uuid4() in one session
MaxIds == 2
\* handlers run in one session (a button press of app.py, or one store call)
MaxOps == 3
\* records in a store that is listed
MaxSortLen == 3
\* the records in the store when it is searched and counted
MaxQueryLen == 2
\* the pieces in one answer of the LLM that is read for a severity
MaxResponsePieces == 3
\* the characters in one text of first aid steps
MaxStepsLen == 4
\* the lines in one answer of the LLM that lists facilities
MaxLines == 2

(* ----------------------- optional values (None) ------------------------ *)
\* Python's None is the empty tuple, a present value v is <<v>>.
None == <<>>
Some(v) == <<v>>

(* ------------------------------ inputs -------------------------------- *)
RecordIds == 1..MaxIds
Descriptions == {"cut"}
Severities == {"SEVERE", "MINOR"}
BodyParts == {None, Some("arm")}
StepLists == {<<>>, <<"clean", "cover">>}
\* an uploaded image is a file PIL can open ("ok") or not ("bad")
Images == {"ok", "bad"}
ImageLists == {<<>>, <<"ok">>}
ProgressValues == {-5, 0, 50, 80, 100}
PainLevels == {None, Some(3)}
NoteTexts == {Some("done")}
\* the optional notes and photo of update_recovery_progress
ProgressNotes == {None}
Photos == {None, Some("ok")}
StepIndexes == {-1, 0, 1, 2}
PhotoTypes == {"during", "other"}

(* ------------------------------- state -------------------------------- *)
VARIABLES
    health_records,  \* st.session_state.health_records
    record,          \* the handler's local `record`: created, not yet saved
    nextId,          \* the next fresh uuid
    now,             \* datetime.now(): time passes from one handler to the next
    nops,            \* handlers started so far
    last,            \* the last call: its name, id, argument and result
    view,            \* the last get_all_records call and the list it returned
    reply,           \* the last search, count or parse call and its outcome
    service          \* what the LLM and the geocoder answer when they are called

vars == <<health_records, record, nextId, now, nops, last, view, reply, service>>

(* --------------------------- store functions --------------------------- *)
\* position of the first record with this id, 0 when there is none
\* (the loops of save_record and get_record)
IndexOf(records, record_id) ==
    IF \E i \in 1..Len(records) : records[i].id = record_id
    THEN CHOOSE i \in 1..Len(records) :
            /\ records[i].id = record_id
            /\ \A j \in 1..(i - 1) : records[j].id # record_id
    ELSE 0

get_record(records, record_id) ==
    LET i == IndexOf(records, record_id)
    IN  IF i = 0 THEN None ELSE Some(records[i])

\* save_record without the search for an existing id
save_record_append(records, rec) == Append(records, rec)

\* save_record that removes the stored copy and appends the new one
save_record_move(records, rec) ==
    Append(SelectSeq(records, LAMBDA r : r.id # rec.id), rec)

\* save_record putting a record with a new id in front
save_record_front(records, rec) ==
    LET existing_index == IndexOf(records, rec.id)
    IN  IF existing_index # 0
        THEN [records EXCEPT ![existing_index] = rec]
        ELSE <<rec>> \o records

save_record(records, rec) ==
    LET existing_index == IndexOf(records, rec.id)
    IN  IF existing_index # 0
        THEN [records EXCEPT ![existing_index] = rec]
        ELSE Append(records, rec)

\* add_photo_to_record that also stamps the record with the photo's time
add_photo_to_record_touch(records, record_id, image, photo_type, t) ==
    LET i == IndexOf(records, record_id)
    IN  IF i = 0
        THEN [store |-> records, ret |-> FALSE]
        ELSE IF image # "ok"
        THEN [store |-> records, ret |-> FALSE]
        ELSE LET photo_entry == [data |-> image, timestamp |-> t, type |-> photo_type]
                 rec == [records[i] EXCEPT !.timestamp = t]
                 rec2 == IF photo_type \in DOMAIN rec.photos
                         THEN [rec EXCEPT !.photos[photo_type] = Append(@, photo_entry)]
                         ELSE rec
                 store1 == [records EXCEPT ![i] = rec2]
             IN  [store |-> save_record(store1, rec2), ret |-> TRUE]

\* add_photo_to_record: the store afterwards and the value returned
add_photo_to_record(records, record_id, image, photo_type, t) ==
    LET i == IndexOf(records, record_id)
    IN  IF i = 0
        THEN [store |-> records, ret |-> FALSE]
        ELSE IF image # "ok"
        THEN [store |-> records, ret |-> FALSE]    \* Image.open raised
        ELSE LET photo_entry == [data |-> image, timestamp |-> t, type |-> photo_type]
                 rec == records[i]
                 rec2 == IF photo_type \in DOMAIN rec.photos
                         THEN [rec EXCEPT !.photos[photo_type] = Append(@, photo_entry)]
                         ELSE rec
                 store1 == [records EXCEPT ![i] = rec2]
             IN  [store |-> save_record(store1, rec2), ret |-> TRUE]

\* the loop `for img in images: add_photo_to_record(record["id"], img, "before")`
RECURSIVE AddInitialPhotos(_, _, _, _)
AddInitialPhotos(records, record_id, images, t) ==
    IF images = <<>>
    THEN records
    ELSE AddInitialPhotos(
            add_photo_to_record(records, record_id, Head(images), "before", t).store,
            record_id, Tail(images), t)

NewRecord(id, t, injury_description, severity, body_part, first_aid_steps) ==
    [ id |-> id,
      timestamp |-> t,
      injury_type |-> injury_description,
      description |-> injury_description,
      severity |-> severity,
      emergency_level |-> "ROUTINE",
      body_part |-> body_part,
      location |-> None,
      status |-> "active",
      initial_analysis |-> [ai_analysis |-> "", severity |-> severity, timestamp |-> t],
      first_aid_steps |-> [recommended |-> first_aid_steps, completed |-> <<>>,
                           notes |-> "", completed_at |-> None],
      photos |-> [before |-> <<>>, during |-> <<>>, after |-> <<>>],
      recovery |-> [status |-> "initial", progress_percentage |-> 0,
                    pain_level |-> None, updates |-> <<>>],
      medications |-> <<>>,
      notes |-> <<>> ]

\* create_injury_record that stores the record it returns
create_injury_record_saves(records, id, t, injury_description, severity, body_part, first_aid_steps, images) ==
    LET rec == NewRecord(id, t, injury_description, severity, body_part, first_aid_steps)
    IN  [ record |-> rec,
          store |-> AddInitialPhotos(save_record(records, rec), id, images, t) ]

\* create_injury_record: the record returned and the store afterwards
create_injury_record(records, id, t, injury_description, severity, body_part, first_aid_steps, images) ==
    [ record |-> NewRecord(id, t, injury_description, severity, body_part, first_aid_steps),
      store |-> AddInitialPhotos(records, id, images, t) ]

\* the status branch with the "recovering" case setting the top-level status only
StatusAfter_top_only(rec, progress_percentage) ==
    IF progress_percentage >= 100
    THEN [rec EXCEPT !.status = "healed", !.recovery.status = "healed"]
    ELSE IF progress_percentage >= 75
    THEN [rec EXCEPT !.status = "recovering"]
    ELSE IF progress_percentage > 0
    THEN [rec EXCEPT !.status = "healing", !.recovery.status = "healing"]
    ELSE rec

\* the status branch with a last case that archives a record below 0
StatusAfter_archives(rec, progress_percentage) ==
    IF progress_percentage >= 100
    THEN [rec EXCEPT !.status = "healed", !.recovery.status = "healed"]
    ELSE IF progress_percentage >= 75
    THEN [rec EXCEPT !.status = "recovering", !.recovery.status = "recovering"]
    ELSE IF progress_percentage > 0
    THEN [rec EXCEPT !.status = "healing", !.recovery.status = "healing"]
    ELSE IF progress_percentage < 0
    THEN [rec EXCEPT !.status = "archived", !.recovery.status = "archived"]
    ELSE rec

\* the status branch of update_recovery_progress
StatusAfter(rec, progress_percentage) ==
    IF progress_percentage >= 100
    THEN [rec EXCEPT !.status = "healed", !.recovery.status = "healed"]
    ELSE IF progress_percentage >= 75
    THEN [rec EXCEPT !.status = "recovering", !.recovery.status = "recovering"]
    ELSE IF progress_percentage > 0
    THEN [rec EXCEPT !.status = "healing", !.recovery.status = "healing"]
    ELSE rec

\* recovery.updates overwritten with the latest entry instead of appended to
AppendUpdate_replace(updates, update_entry) == <<update_entry>>

\* record["recovery"]["updates"].append(update_entry)
AppendUpdate(updates, update_entry) == Append(updates, update_entry)

\* the entry update_recovery_progress appends to recovery.updates
UpdateEntry(t, progress_percentage, pain_level, notes) ==
    [ date |-> t, progress |-> progress_percentage, pain_level |-> pain_level,
      notes |-> IF notes = None THEN "" ELSE notes[1] ]

\* update_recovery_progress that never lowers the stored progress
update_recovery_progress_keep_max(records, record_id, progress_percentage, pain_level, notes, photo, t) ==
    LET i == IndexOf(records, record_id)
    IN  IF i = 0
        THEN [store |-> records, ret |-> FALSE]
        ELSE LET rec == records[i]
                 r1 == [rec EXCEPT
                          !.recovery.progress_percentage =
                              IF progress_percentage > @ THEN progress_percentage ELSE @,
                          !.recovery.pain_level =
                              IF pain_level # None THEN pain_level ELSE @,
                          !.recovery.updates =
                              AppendUpdate(@, UpdateEntry(t, progress_percentage, pain_level, notes))]
                 r2 == StatusAfter(r1, progress_percentage)
                 store1 == [records EXCEPT ![i] = r2]
                 store2 == IF photo # None
                           THEN add_photo_to_record(store1, record_id, photo[1], "during", t).store
                           ELSE store1
             IN  [store |-> save_record(store2, store2[i]), ret |-> TRUE]

\* update_recovery_progress: the store afterwards and the value returned.
\* The record is the stored object itself, so each assignment is already
\* visible in the store when add_photo_to_record and save_record run.
update_recovery_progress(records, record_id, progress_percentage, pain_level, notes, photo, t) ==
    LET i == IndexOf(records, record_id)
    IN  IF i = 0
        THEN [store |-> records, ret |-> FALSE]
        ELSE LET rec == records[i]
                 r1 == [rec EXCEPT
                          !.recovery.progress_percentage = progress_percentage,
                          !.recovery.pain_level =
                              IF pain_level # None THEN pain_level ELSE @,
                          !.recovery.updates =
                              AppendUpdate(@, UpdateEntry(t, progress_percentage, pain_level, notes))]
                 r2 == StatusAfter(r1, progress_percentage)
                 store1 == [records EXCEPT ![i] = r2]
                 store2 == IF photo # None
                           THEN add_photo_to_record(store1, record_id, photo[1], "during", t).store
                           ELSE store1
             IN  [store |-> save_record(store2, store2[i]), ret |-> TRUE]

\* `step_index in completed`
InSeq(x, seq) == \E k \in 1..Len(seq) : seq[k] = x

\* the guard without `step_index not in completed`
StepAccepted_no_dup_check(rec, step_index) ==
    /\ 0 <= step_index
    /\ step_index < Len(rec.first_aid_steps.recommended)

\* the guard of mark_first_aid_step_completed (indices count from 0)
StepAccepted(rec, step_index) ==
    /\ 0 <= step_index
    /\ step_index < Len(rec.first_aid_steps.recommended)
    /\ ~InSeq(step_index, rec.first_aid_steps.completed)

\* mark_first_aid_step_completed that sets completed_at on every accepted call
mark_first_aid_step_completed_restamp(records, record_id, step_index, notes, t) ==
    LET i == IndexOf(records, record_id)
    IN  IF i = 0
        THEN [store |-> records, ret |-> FALSE]
        ELSE LET rec == records[i]
             IN  IF StepAccepted(rec, step_index)
                 THEN LET r1 == [rec EXCEPT
                                   !.first_aid_steps.completed = Append(@, step_index),
                                   !.first_aid_steps.completed_at = Some(t),
                                   !.first_aid_steps.notes =
                                       IF notes # None THEN notes[1] ELSE @]
                          store1 == [records EXCEPT ![i] = r1]
                      IN  [store |-> save_record(store1, r1), ret |-> TRUE]
                 ELSE [store |-> records, ret |-> FALSE]

mark_first_aid_step_completed(records, record_id, step_index, notes, t) ==
    LET i == IndexOf(records, record_id)
    IN  IF i = 0
        THEN [store |-> records, ret |-> FALSE]
        ELSE LET rec == records[i]
             IN  IF StepAccepted(rec, step_index)
                 THEN LET r1 == [rec EXCEPT
                                   !.first_aid_steps.completed = Append(@, step_index),
                                   !.first_aid_steps.completed_at =
                                       IF @ = None THEN Some(t) ELSE @,
                                   !.first_aid_steps.notes =
                                       IF notes # None THEN notes[1] ELSE @]
                          store1 == [records EXCEPT ![i] = r1]
                      IN  [store |-> save_record(store1, r1), ret |-> TRUE]
                 ELSE [store |-> records, ret |-> FALSE]

\* add_note_to_record that puts the new note in front
add_note_to_record_prepend(records, record_id, note_content, t) ==
    LET i == IndexOf(records, record_id)
    IN  IF i = 0
        THEN [store |-> records, ret |-> FALSE]
        ELSE LET note == [timestamp |-> t, content |-> note_content]
                 r1 == [records[i] EXCEPT !.notes = <<note>> \o @]
                 store1 == [records EXCEPT ![i] = r1]
             IN  [store |-> save_record(store1, r1), ret |-> TRUE]

\* add_note_to_record reporting success also when no record was found
add_note_to_record_unchecked(records, record_id, note_content, t) ==
    LET i == IndexOf(records, record_id)
    IN  IF i = 0
        THEN [store |-> records, ret |-> TRUE]
        ELSE LET note == [timestamp |-> t, content |-> note_content]
                 r1 == [records[i] EXCEPT !.notes = Append(@, note)]
                 store1 == [records EXCEPT ![i] = r1]
             IN  [store |-> save_record(store1, r1), ret |-> TRUE]

add_note_to_record(records, record_id, note_content, t) ==
    LET i == IndexOf(records, record_id)
    IN  IF i = 0
        THEN [store |-> records, ret |-> FALSE]
        ELSE LET note == [timestamp |-> t, content |-> note_content]
                 r1 == [records[i] EXCEPT !.notes = Append(@, note)]
                 store1 == [records EXCEPT ![i] = r1]
             IN  [store |-> save_record(store1, r1), ret |-> TRUE]

add_medication(records, record_id, name, dosage, frequency, t) ==
    LET i == IndexOf(records, record_id)
    IN  IF i = 0
        THEN [store |-> records, ret |-> FALSE]
        ELSE LET medication == [name |-> name, dosage |-> dosage, frequency |-> frequency,
                                added_at |-> t, taken |-> <<>>]
                 r1 == [records[i] EXCEPT !.medications = Append(@, medication)]
                 store1 == [records EXCEPT ![i] = r1]
             IN  [store |-> save_record(store1, r1), ret |-> TRUE]

\* delete_record that stops at the record it removes
RECURSIVE delete_record_truncate(_, _)
delete_record_truncate(records, record_id) ==
    IF records = <<>>
    THEN <<>>
    ELSE IF Head(records).id # record_id
    THEN <<Head(records)>> \o delete_record_truncate(Tail(records), record_id)
    ELSE <<>>

\* the list comprehension of delete_record
RECURSIVE delete_record(_, _)
delete_record(records, record_id) ==
    IF records = <<>>
    THEN <<>>
    ELSE IF Head(records).id # record_id
    THEN <<Head(records)>> \o delete_record(Tail(records), record_id)
    ELSE delete_record(Tail(records), record_id)

\* severity_order.get(severity, 0)
severity_order(severity) ==
    CASE severity = "SEVERE" -> 3
      [] severity = "MODERATE" -> 2
      [] severity = "MINOR" -> 1
      [] OTHER -> 0

\* status_order.get(status, 0)
status_order(status) ==
    CASE status = "active" -> 3
      [] status = "healing" -> 2
      [] status = "healed" -> 1
      [] OTHER -> 0

\* the key function of each records.sort call
SortKey(sort_by, rec) ==
    CASE sort_by = "timestamp" -> rec.timestamp
      [] sort_by = "severity" -> severity_order(rec.severity)
      [] sort_by = "status" -> status_order(rec.status)

\* list.sort is stable, also with reverse=True: a record goes behind the
\* records already placed whose key is equal
RECURSIVE InsertByKey(_, _, _, _)
InsertByKey(sorted, rec, sort_by, reverse) ==
    IF sorted = <<>>
    THEN <<rec>>
    ELSE LET h == SortKey(sort_by, Head(sorted))
             k == SortKey(sort_by, rec)
         IN  IF (reverse /\ h < k) \/ (~reverse /\ h > k)
             THEN <<rec>> \o sorted
             ELSE <<Head(sorted)>> \o InsertByKey(Tail(sorted), rec, sort_by, reverse)

RECURSIVE SortRecords(_, _, _, _)
SortRecords(sorted, records, sort_by, reverse) ==
    IF records = <<>>
    THEN sorted
    ELSE SortRecords(InsertByKey(sorted, Head(records), sort_by, reverse),
                     Tail(records), sort_by, reverse)

get_all_records(records, sort_by, reverse) ==
    IF sort_by \in {"timestamp", "severity", "status"}
    THEN SortRecords(<<>>, records, sort_by, reverse)
    ELSE records

(* ------------------------- text and its case --------------------------- *)
\* a str is the sequence of its characters; str.lower() maps every upper
\* case letter to its lower case letter and leaves the rest
LowerChar(c) ==
    CASE c = "A" -> "a"
      [] c = "C" -> "c"
      [] c = "M" -> "m"
      [] c = "R" -> "r"
      [] c = "U" -> "u"
      [] OTHER -> c
Lower(text) == [k \in 1..Len(text) |-> LowerChar(text[k])]
\* `needle in text` on two str
Contains(needle, text) ==
    \E k \in 0..(Len(text) - Len(needle)) : SubSeq(text, k + 1, k + Len(needle)) = needle

(* ----------------------- searching and counting ------------------------ *)
\* the truth value Python gives an optional str: None and "" are false
Given(criterion) == criterion # None /\ criterion[1] # ""
GivenText(criterion) == criterion # None /\ criterion[1] # <<>>

\* the condition of the search_query comprehension raises AttributeError for
\* a record when both `in` tests fail and body_part is None
SearchRaises(rec, query_lower) ==
    /\ ~Contains(query_lower, Lower(rec.injury_type))
    /\ ~Contains(query_lower, Lower(rec.description))
    /\ rec.body_part = None
SearchMatches(rec, query_lower) ==
    \/ Contains(query_lower, Lower(rec.injury_type))
    \/ Contains(query_lower, Lower(rec.description))
    \/ Contains(query_lower, Lower(rec.body_part[1]))

\* filter_records: whether the call raised, and the list returned if not
filter_records(records, severity, status, body_part, date_from, date_to, search_query) ==
    LET all == get_all_records(records, "timestamp", TRUE)
        f1 == IF Given(severity)
              THEN SelectSeq(all, LAMBDA r : r.severity = severity[1])
              ELSE all
        f2 == IF Given(status)
              THEN SelectSeq(f1, LAMBDA r : r.status = status[1])
              ELSE f1
        bodyRaises == GivenText(body_part) /\ \E k \in 1..Len(f2) : f2[k].body_part = None
        f3 == IF GivenText(body_part) /\ ~bodyRaises
              THEN SelectSeq(f2, LAMBDA r : Lower(r.body_part[1]) = Lower(body_part[1]))
              ELSE f2
        f4 == IF date_from # None
              THEN SelectSeq(f3, LAMBDA r : r.timestamp >= date_from[1])
              ELSE f3
        f5 == IF date_to # None
              THEN SelectSeq(f4, LAMBDA r : r.timestamp <= date_to[1])
              ELSE f4
        searchRaises == /\ ~bodyRaises
                        /\ GivenText(search_query)
                        /\ \E k \in 1..Len(f5) : SearchRaises(f5[k], Lower(search_query[1]))
        f6 == IF GivenText(search_query) /\ ~bodyRaises /\ ~searchRaises
              THEN SelectSeq(f5, LAMBDA r : SearchMatches(r, Lower(search_query[1])))
              ELSE f5
    IN  IF bodyRaises \/ searchRaises
        THEN [raised |-> TRUE, records |-> <<>>]
        ELSE [raised |-> FALSE, records |-> f6]

\* a dict without keys
EmptyDict == [key \in {} |-> 0]
\* the dict counting the records by one of their fields
CountBy(records, field) ==
    [key \in {records[k][field] : k \in 1..Len(records)} |->
        Cardinality({k \in 1..Len(records) : records[k][field] = key})]
\* the values of body_part that `if bp:` lets through, in iteration order
CountedBodyParts(records) ==
    LET counted == SelectSeq(records, LAMBDA r : GivenText(r.body_part))
    IN  [k \in 1..Len(counted) |-> counted[k].body_part[1]]
\* the keys of the body_parts dict, in insertion order
RECURSIVE DictKeys(_)
DictKeys(parts) ==
    IF parts = <<>>
    THEN <<>>
    ELSE LET before == DictKeys(SubSeq(parts, 1, Len(parts) - 1))
             bp == parts[Len(parts)]
         IN  IF InSeq(bp, before) THEN before ELSE Append(before, bp)
Occurrences(parts, bp) == Cardinality({k \in 1..Len(parts) : parts[k] = bp})

\* max over the dict's items taking the last item of maximal count
MaxByCount_last(parts) ==
    LET keys == DictKeys(parts)
        best == CHOOSE i \in 1..Len(keys) :
                    /\ \A j \in 1..Len(keys) :
                          Occurrences(parts, keys[j]) <= Occurrences(parts, keys[i])
                    /\ \A j \in (i + 1)..Len(keys) :
                          Occurrences(parts, keys[j]) < Occurrences(parts, keys[i])
    IN  keys[best]

\* max(body_parts.items(), key=lambda x: x[1])[0]: the first item of maximal
\* count in the dict's order
MaxByCount(parts) ==
    LET keys == DictKeys(parts)
        best == CHOOSE i \in 1..Len(keys) :
                    /\ \A j \in 1..Len(keys) :
                          Occurrences(parts, keys[j]) <= Occurrences(parts, keys[i])
                    /\ \A j \in 1..(i - 1) :
                          Occurrences(parts, keys[j]) < Occurrences(parts, keys[i])
    IN  keys[best]

\* get_statistics: the dict returned
get_statistics(store) ==
    LET records == get_all_records(store, "timestamp", TRUE)
        parts == CountedBodyParts(records)
    IN  IF records = <<>>
        THEN [ total_records |-> 0,
               by_severity |-> EmptyDict,
               by_status |-> EmptyDict,
               most_common_body_part |-> None,
               average_recovery_time |-> None ]
        ELSE [ total_records |-> Len(records),
               by_severity |-> CountBy(records, "severity"),
               by_status |-> CountBy(records, "status"),
               most_common_body_part |->
                   IF parts # <<>> THEN Some(MaxByCount(parts)) ELSE None,
               active_injuries |->
                   Len(SelectSeq(records, LAMBDA r : r.status = "active")),
               healed_injuries |->
                   Len(SelectSeq(records, LAMBDA r : r.status = "healed")) ]

(* ---------------------- reading the LLM's answers ----------------------- *)
\* str.upper() on the letters the answers are made of
UpperChar(c) ==
    CASE c = "e" -> "E"
      [] c = "g" -> "G"
      [] c = "i" -> "I"
      [] c = "n" -> "N"
      [] c = "r" -> "R"
      [] c = "s" -> "S"
      [] c = "t" -> "T"
      [] c = "u" -> "U"
      [] c = "v" -> "V"
      [] c = "y" -> "Y"
      [] OTHER -> c
Upper(text) == [k \in 1..Len(text) |-> UpperChar(text[k])]
\* the characters str.strip() removes
Whitespace == {" ", "\t", "\n"}
RECURSIVE LStrip(_)
LStrip(text) ==
    IF text # <<>> /\ Head(text) \in Whitespace THEN LStrip(Tail(text)) ELSE text
RECURSIVE RStrip(_)
RStrip(text) ==
    IF text # <<>> /\ text[Len(text)] \in Whitespace
    THEN RStrip(SubSeq(text, 1, Len(text) - 1))
    ELSE text
Strip(text) == RStrip(LStrip(text))
\* text.split("\n")
RECURSIVE SplitLines(_)
SplitLines(text) ==
    IF \E k \in 1..Len(text) : text[k] = "\n"
    THEN LET k == CHOOSE i \in 1..Len(text) :
                      text[i] = "\n" /\ \A j \in 1..(i - 1) : text[j] # "\n"
         IN  <<SubSeq(text, 1, k - 1)>> \o SplitLines(SubSeq(text, k + 1, Len(text)))
    ELSE <<text>>
\* text.split(marker)[-1]: what follows the last occurrence of the marker
AfterLast(marker, text) ==
    LET starts == {k \in 0..(Len(text) - Len(marker)) :
                      SubSeq(text, k + 1, k + Len(marker)) = marker}
    IN  IF starts = {}
        THEN text
        ELSE LET k == CHOOSE i \in starts : \A j \in starts : j <= i
             IN  SubSeq(text, k + Len(marker) + 1, Len(text))

SeverityMarker == <<"S", "E", "V", "E", "R", "I", "T", "Y", ":">>
SevereWord == <<"S", "E", "V", "E", "R", "E">>
ModerateWord == <<"M", "O", "D", "E", "R", "A", "T", "E">>
MinorWord == <<"M", "I", "N", "O", "R">>
UnknownSeverity == <<"U", "N", "K", "N", "O", "W", "N">>
WarningsMarker == <<"W", "A", "R", "N", "I", "N", "G", "S", ":">>
UrgentWord == <<"U", "R", "G", "E", "N", "T">>

\* the severity read with the marker looked for in any letter case
ExtractSeverity_any_case(analysis_text) ==
    IF Contains(SeverityMarker, Upper(analysis_text))
    THEN LET severity_line == SelectSeq(SplitLines(Upper(analysis_text)),
                                         LAMBDA line : Contains(SeverityMarker, line))
         IN  IF severity_line # <<>>
             THEN Strip(AfterLast(SeverityMarker, severity_line[1]))
             ELSE UnknownSeverity
    ELSE UnknownSeverity

\* the severity analyze_image reads from the stripped answer
ExtractSeverity(analysis_text) ==
    IF Contains(SeverityMarker, analysis_text)
    THEN LET severity_line == SelectSeq(SplitLines(analysis_text),
                                         LAMBDA line : Contains(SeverityMarker, line))
         IN  IF severity_line # <<>>
             THEN Upper(Strip(AfterLast(SeverityMarker, severity_line[1])))
             ELSE UnknownSeverity
    ELSE UnknownSeverity

\* the recommendation analyze_image attaches to a severity
Recommendation(severity) ==
    IF Contains(SevereWord, severity)
    THEN "URGENT: Seek immediate professional medical attention."
    ELSE IF Contains(ModerateWord, severity)
    THEN "Recommend seeing a healthcare professional soon, within 24 hours."
    ELSE IF Contains(MinorWord, severity)
    THEN "Minor injury. Follow first aid steps and monitor."
    ELSE "Consult with healthcare professional."

\* analyze_image(uploaded_file, return_structured=True) for one outcome of
\* generate_content: it raises, it has no text, or it has a text
analyze_image(response) ==
    IF response.outcome = "raises"
    THEN [ analysis |-> "Unable to analyze the image.",
           severity |-> UnknownSeverity,
           recommendation |-> "Please consult a healthcare professional." ]
    ELSE IF response.text = <<>>
    THEN [ analysis |-> "No visible injury detected in the image.",
           severity |-> UnknownSeverity,
           recommendation |-> "If you have concerns, consult a healthcare professional." ]
    ELSE LET analysis_text == Strip(response.text)
             severity == ExtractSeverity(analysis_text)
         IN  [ analysis |-> analysis_text,
               severity |-> severity,
               recommendation |-> Recommendation(severity) ]

\* generate_first_aid_steps(injury_description, severity,
\* return_structured=True) for one outcome of generate_content
generate_first_aid_steps(response, severity) ==
    IF response.outcome = "raises"
    THEN [ steps |-> "Unable to generate first aid instructions. Consult immediately.",
           has_warnings |-> TRUE,
           needs_emergency |-> TRUE ]
    ELSE IF response.text = <<>>
    THEN [ steps |-> "Unable to generate first aid instructions.",
           has_warnings |-> TRUE,
           needs_emergency |-> FALSE ]
    ELSE LET steps_text == Strip(response.text)
         IN  [ steps |-> steps_text,
               has_warnings |-> \/ Contains(WarningsMarker, steps_text)
                                \/ Contains(UrgentWord, Upper(steps_text)),
               needs_emergency |-> IF GivenText(severity)
                                   THEN Contains(SevereWord, Upper(severity[1]))
                                   ELSE FALSE ]

(* ----------------------- the list of steps, read ------------------------ *)
Digits == <<"0", "1", "2", "3", "4", "5", "6", "7", "8", "9">>
IsDigit(c) == InSeq(c, Digits)
\* the bullet character U+2022, written as one character of its own
Bullet == "bullet"
\* the characters a line of the list may start with
StepBullets == {Bullet, "-", "*"}
\* the characters line.lstrip removes: the digits and . bullet - * space )
StepPrefixChars == {Digits[k] : k \in 1..Len(Digits)} \cup {".", Bullet, "-", "*", " ", ")"}
RECURSIVE LStripChars(_, _)
LStripChars(text, chars) ==
    IF text # <<>> /\ Head(text) \in chars THEN LStripChars(Tail(text), chars) ELSE text

\* the steps the loop over the lines of steps_text appends to steps_list
RECURSIVE StepsOfLines(_)
StepsOfLines(lines) ==
    IF lines = <<>>
    THEN <<>>
    ELSE LET line == Strip(Head(lines))
             step_clean == Strip(LStripChars(line, StepPrefixChars))
         IN  IF /\ line # <<>>
                /\ (IsDigit(line[1]) \/ line[1] \in StepBullets)
                /\ step_clean # <<>>
             THEN <<step_clean>> \o StepsOfLines(Tail(lines))
             ELSE StepsOfLines(Tail(lines))
steps_list(steps_text) == StepsOfLines(SplitLines(steps_text))

(* --------------------- the list of facilities, read --------------------- *)
\* the en dash U+2013 and the em dash U+2014, each one character of its own
EnDash == "endash"
EmDash == "emdash"
\* the characters of the class [|,\-<en dash><em dash>]
Delimiters == {"|", ",", "-", EnDash, EmDash}
DigitChars == {Digits[k] : k \in 1..Len(Digits)}

\* the first position from i on that holds no whitespace (Len + 1 if none)
SkipSpaces(text, i) ==
    CHOOSE j \in i..(Len(text) + 1) :
        /\ (j = Len(text) + 1 \/ text[j] \notin Whitespace)
        /\ \A k \in i..(j - 1) : text[k] \in Whitespace
\* the last position of the digits that start at i (i - 1 if none does)
DigitsEnd(text, i) ==
    CHOOSE j \in (i - 1)..Len(text) :
        /\ \A k \in i..j : text[k] \in DigitChars
        /\ (j = Len(text) \/ text[j + 1] \notin DigitChars)

\* ^\d+\. : the position of the period after the leading digits, 0 if the
\* text does not start that way
OrdinalEnd(text) ==
    LET d == DigitsEnd(text, 1)
    IN  IF d >= 1 /\ d < Len(text) /\ text[d + 1] = "." THEN d + 1 ELSE 0

\* [+-]?\d+\.?\d* at position i: the last position matched, 0 if no match
NumberEnd(text, i) ==
    LET a == IF i <= Len(text) /\ text[i] \in {"+", "-"} THEN i + 1 ELSE i
        b == DigitsEnd(text, a)
        c == IF b < Len(text) /\ text[b + 1] = "." THEN b + 1 ELSE b
    IN  IF i > Len(text) \/ b < a THEN 0 ELSE DigitsEnd(text, c + 1)

\* the value of a run of digits
RECURSIVE DigitsValue(_)
DigitsValue(digits) ==
    IF digits = <<>>
    THEN 0
    ELSE 10 * DigitsValue(SubSeq(digits, 1, Len(digits) - 1))
            + (CHOOSE v \in 0..9 : Digits[v + 1] = digits[Len(digits)])
RECURSIVE DropZeros(_)
DropZeros(digits) ==
    IF digits # <<>> /\ digits[Len(digits)] = "0"
    THEN DropZeros(SubSeq(digits, 1, Len(digits) - 1))
    ELSE digits
\* float(text) for a text matched by [+-]?\d+\.?\d* : the sign, the whole
\* part and the digits of the fraction without its closing zeros
ToFloat(text) ==
    LET a == IF text[1] \in {"+", "-"} THEN 2 ELSE 1
        b == DigitsEnd(text, a)
        whole == DigitsValue(SubSeq(text, a, b))
        fraction == DropZeros(SubSeq(text, b + 2, Len(text)))
    IN  [ negative |-> text[1] = "-" /\ (whole # 0 \/ fraction # <<>>),
          whole |-> whole,
          fraction |-> fraction ]

\* number, comma, number at position i, with whitespace allowed after the
\* comma and, if before_comma, before it: the two numbers, or None
PairAt(text, i, before_comma) ==
    LET Pair(e1, j, e2) ==
            IF e2 = 0
            THEN None
            ELSE Some([lat |-> SubSeq(text, i, e1), lon |-> SubSeq(text, j, e2)])
        Second(e1, j) == Pair(e1, j, NumberEnd(text, j))
        Comma(e1, comma) ==
            IF comma > Len(text)
            THEN None
            ELSE IF text[comma] # ","
            THEN None
            ELSE Second(e1, SkipSpaces(text, comma + 1))
        First(e1) ==
            IF e1 = 0
            THEN None
            ELSE Comma(e1, IF before_comma THEN SkipSpaces(text, e1 + 1) ELSE e1 + 1)
    IN  First(NumberEnd(text, i))

\* the positions a lazy group (.+?) that follows \s* at position from can
\* end before, i.e. the positions of the separator behind it, and the order
\* in which the match tries them: the separators behind the first character
\* that is no whitespace from left to right, then the separator that is that
\* character, with whitespace alone in the group
LazyEnds(text, from, separator) ==
    LET first == SkipSpaces(text, from)
    IN  {k \in (from + 1)..Len(text) : text[k] = separator /\ (k > first \/ k = first)}
TriedBefore(text, from, k1, k2) ==
    LET first == SkipSpaces(text, from)
    IN  IF k1 = first THEN FALSE ELSE (k2 = first \/ k1 < k2)

\* pattern 1, ^\d+\.\s*(.+?)\s*\|\s*(.+?)\s*\|\s*(number),\s*(number) :
\* the groups of the match, or None
Match1(line) ==
    LET from == OrdinalEnd(line) + 1
        Behind(k2) == PairAt(line, SkipSpaces(line, k2 + 1), FALSE)
        Seconds(k1) == {k2 \in LazyEnds(line, k1 + 1, "|") : Behind(k2) # None}
        Tried(ends, at) ==
            CHOOSE k \in ends : \A o \in ends \ {k} : TriedBefore(line, at, k, o)
        Groups(k1, k2, pair) ==
            Some([ name |-> SubSeq(line, from, k1 - 1),
                   address |-> SubSeq(line, k1 + 1, k2 - 1),
                   lat |-> pair.lat,
                   lon |-> pair.lon ])
        Pipes(k1, k2) == Groups(k1, k2, Behind(k2)[1])
        Pipe(k1) == Pipes(k1, Tried(Seconds(k1), k1 + 1))
        Found(firsts) == IF firsts = {} THEN None ELSE Pipe(Tried(firsts, from))
    IN  IF OrdinalEnd(line) = 0
        THEN None
        ELSE Found({k1 \in LazyEnds(line, from, "|") : Seconds(k1) # {}})

\* pattern 2, (number)\s*,\s*(number) searched in the line: the leftmost
\* match with what stands before it, or None
Match2(line) ==
    LET Found(i, pair) ==
            Some([prefix |-> SubSeq(line, 1, i - 1), lat |-> pair.lat, lon |-> pair.lon])
        At(i) == Found(i, PairAt(line, i, TRUE)[1])
        Leftmost(starts) ==
            IF starts = {}
            THEN None
            ELSE At(CHOOSE k \in starts : \A o \in starts : k <= o)
    IN  Leftmost({i \in 1..Len(line) : PairAt(line, i, TRUE) # None})

\* pattern 3, ^\d+\.\s*(.+?),\s*(.+)$ : the groups of the match, or None
Match3(line) ==
    LET from == OrdinalEnd(line) + 1
        commas == {k \in LazyEnds(line, from, ",") : k < Len(line)}
    IN  IF OrdinalEnd(line) = 0 \/ commas = {}
        THEN None
        ELSE LET k1 == CHOOSE k \in commas :
                           \A o \in commas \ {k} : TriedBefore(line, from, k, o)
             IN  Some([ name |-> SubSeq(line, from, k1 - 1),
                        address |-> SubSeq(line, k1 + 1, Len(line)) ])

\* pattern 4, ^\d+\.\s*(.+)$ : the group of the match, or None
Match4(line) ==
    LET from == OrdinalEnd(line) + 1
    IN  IF OrdinalEnd(line) = 0 \/ from > Len(line)
        THEN None
        ELSE Some(SubSeq(line, SkipSpaces(line, from), Len(line)))

\* re.sub(r'^\d+\.\s*', '', prefix)
WithoutOrdinal(prefix) ==
    IF OrdinalEnd(prefix) = 0
    THEN prefix
    ELSE SubSeq(prefix, SkipSpaces(prefix, OrdinalEnd(prefix) + 1), Len(prefix))
\* re.split(r'[|,\-<dashes>]', text): the pieces between the delimiters
RECURSIVE SplitDelimiters(_)
SplitDelimiters(text) ==
    IF \E k \in 1..Len(text) : text[k] \in Delimiters
    THEN LET k == CHOOSE i \in 1..Len(text) :
                      text[i] \in Delimiters /\ \A j \in 1..(i - 1) : text[j] \notin Delimiters
         IN  <<SubSeq(text, 1, k - 1)>> \o SplitDelimiters(SubSeq(text, k + 1, Len(text)))
    ELSE <<text>>
\* re.split(..., prefix, 1): the pieces before and after the first delimiter
SplitOnce(text) ==
    IF \E k \in 1..Len(text) : text[k] \in Delimiters
    THEN LET k == CHOOSE i \in 1..Len(text) :
                      text[i] \in Delimiters /\ \A j \in 1..(i - 1) : text[j] \notin Delimiters
         IN  <<SubSeq(text, 1, k - 1), SubSeq(text, k + 1, Len(text))>>
    ELSE <<text>>
\* [p.strip() for p in pieces if p.strip()]
RECURSIVE StrippedParts(_)
StrippedParts(pieces) ==
    IF pieces = <<>>
    THEN <<>>
    ELSE IF Strip(Head(pieces)) # <<>>
    THEN <<Strip(Head(pieces))>> \o StrippedParts(Tail(pieces))
    ELSE StrippedParts(Tail(pieces))
\* ' '.join(parts)
RECURSIVE JoinSpace(_)
JoinSpace(parts) ==
    IF parts = <<>>
    THEN <<>>
    ELSE IF Len(parts) = 1
    THEN parts[1]
    ELSE parts[1] \o <<" ">> \o JoinSpace(Tail(parts))

\* what each pattern makes of a stripped line that starts with a number
\* and a period: the name and the address, and the coordinates read from
\* the line, or None if the address is to be geocoded; None if the pattern
\* does not match, or, for pattern 4, gives fewer than two parts
Pattern1(line) ==
    LET Read1(m) ==
            IF m = None
            THEN None
            ELSE Some([ by |-> 1, name |-> Strip(m[1].name), address |-> Strip(m[1].address),
                        coords |-> Some([lat |-> ToFloat(m[1].lat), lon |-> ToFloat(m[1].lon)]) ])
    IN  Read1(Match1(line))
Pattern2(line) ==
    LET Entry2(m, prefix, parts) ==
            Some([ by |-> 2, name |-> Strip(parts[1]),
                   address |-> IF Len(parts) > 1 THEN Strip(parts[2]) ELSE prefix,
                   coords |-> Some([lat |-> ToFloat(m.lat), lon |-> ToFloat(m.lon)]) ])
        Split2(m, prefix) == Entry2(m, prefix, SplitOnce(prefix))
        Read2(m) ==
            IF m = None THEN None ELSE Split2(m[1], WithoutOrdinal(Strip(m[1].prefix)))
    IN  Read2(Match2(line))
Pattern3(line) ==
    LET Read3(m) ==
            IF m = None
            THEN None
            ELSE Some([ by |-> 3, name |-> Strip(m[1].name), address |-> Strip(m[1].address),
                        coords |-> None ])
    IN  Read3(Match3(line))
Pattern4(line) ==
    LET Entry4(parts) ==
            IF Len(parts) >= 2
            THEN Some([ by |-> 4, name |-> parts[1], address |-> JoinSpace(Tail(parts)),
                        coords |-> None ])
            ELSE None
        Read4(m) ==
            IF m = None THEN None ELSE Entry4(StrippedParts(SplitDelimiters(Strip(m[1]))))
    IN  Read4(Match4(line))
\* the first of the tries that is not None, by 0 if there is none
FirstMatch(tries) ==
    IF \A i \in 1..Len(tries) : tries[i] = None
    THEN [by |-> 0, name |-> <<>>, address |-> <<>>, coords |-> None]
    ELSE tries[CHOOSE i \in 1..Len(tries) :
                   tries[i] # None /\ \A j \in 1..(i - 1) : tries[j] = None][1]

\* what the four patterns make of a line, with the patterns tried in the
\* order 1, 3, 2, 4
Extracted_geocode_first(line) ==
    FirstMatch(<<Pattern1(line), Pattern3(line), Pattern2(line), Pattern4(line)>>)

\* what the four patterns make of a line: the pattern used (0 if the line
\* gives no facility) and what it read; the patterns are tried in the
\* order 1, 2, 3, 4 and the first that matches is used
Extracted(line) ==
    FirstMatch(<<Pattern1(line), Pattern2(line), Pattern3(line), Pattern4(line)>>)

\* geocode_address for one outcome of the request: coordinates found, none
\* found (another status than 200 or an empty answer), or the request or
\* its decoding raises; the handler of the exception calls st.debug, which
\* streamlit does not have, so an AttributeError leaves the function
GeocoderCoords == [lat |-> ToFloat(<<"3", "0", ".", "0">>), lon |-> ToFloat(<<"-", "9", "7", ".", "5">>)]
geocode_address(outcome) ==
    IF outcome = "found"
    THEN [raised |-> FALSE, coords |-> Some(GeocoderCoords)]
    ELSE IF outcome = "none"
    THEN [raised |-> FALSE, coords |-> None]
    ELSE [raised |-> TRUE, coords |-> None]

\* the entry data.append adds, without the keys lat and lon when the
\* geocoder found nothing and with every entry dropped in that case
Facility_drop_unresolved(name, address, coords) ==
    IF coords # None
    THEN <<[name |-> name, address |-> address, lat |-> coords[1].lat, lon |-> coords[1].lon]>>
    ELSE <<>>

\* the entry data.append adds, without the keys lat and lon when there are
\* no coordinates
Facility(name, address, coords) ==
    IF coords # None
    THEN <<[name |-> name, address |-> address, lat |-> coords[1].lat, lon |-> coords[1].lon]>>
    ELSE <<[name |-> name, address |-> address]>>

\* one pass of the loop of parse_facilities_to_df, for line k, stripped;
\* outcomes are those of the geocoder's requests, in the order of the
\* calls. used and calls tell which line gave which entry by which pattern
\* and which addresses went to the geocoder; an exception of the geocoder
\* leaves the function, and nothing is returned
ParseLine(k, line, outcomes, acc) ==
    LET Geocoded(e, g, called) ==
            IF g.raised
            THEN [called EXCEPT !.raised = TRUE, !.data = <<>>, !.used = <<>>]
            ELSE [called EXCEPT
                     !.data = @ \o Facility(e.name, e.address, g.coords),
                     !.used = Append(@, [line |-> k, by |-> e.by])]
        Appended(e) ==
            IF e.by = 0
            THEN acc
            ELSE IF e.coords # None
            THEN [acc EXCEPT !.data = @ \o Facility(e.name, e.address, e.coords),
                             !.used = Append(@, [line |-> k, by |-> e.by])]
            ELSE Geocoded(e, geocode_address(outcomes[Len(acc.calls) + 1]),
                          [acc EXCEPT !.calls = Append(@, e.address)])
    IN  IF line = <<>> \/ OrdinalEnd(line) = 0
        THEN acc
        ELSE Appended(Extracted(line))

\* the loop over the lines, from line k on
RECURSIVE ParseLines(_, _, _, _)
ParseLines(lines, k, outcomes, acc) ==
    IF k > Len(lines) \/ acc.raised
    THEN acc
    ELSE ParseLines(lines, k + 1, outcomes, ParseLine(k, Strip(lines[k]), outcomes, acc))

parse_facilities_to_df(text_result, outcomes) ==
    ParseLines(SplitLines(text_result), 1, outcomes,
               [raised |-> FALSE, data |-> <<>>, used |-> <<>>, calls |-> <<>>])

(* ------------------------------ actions -------------------------------- *)
NoView == [sort_by |-> "", reverse |-> FALSE, records |-> <<>>]
NoReply == [op |-> "none"]
NoService == [outcome |-> "none"]

Init ==
    /\ health_records = <<>>
    /\ record = None
    /\ nextId = 1
    /\ now = 0
    /\ nops = 0
    /\ last = [op |-> "init", id |-> 0, arg |-> 0, ret |-> TRUE]
    /\ view = NoView
    /\ reply = NoReply
    /\ service = NoService

CreateInjuryRecord ==
    /\ nops < MaxOps
    /\ nextId <= MaxIds
    /\ record = None
    /\ \E d \in Descriptions, s \in Severities, b \in BodyParts,
          f \in StepLists, imgs \in ImageLists :
          LET c == create_injury_record(health_records, nextId, now, d, s, b, f, imgs)
          IN  /\ record' = Some(c.record)
              /\ health_records' = c.store
              /\ last' = [op |-> "create_injury_record", id |-> nextId,
                          arg |-> Len(imgs), ret |-> TRUE]
    /\ nextId' = nextId + 1
    /\ nops' = nops + 1
    /\ now' = now + 1
    /\ UNCHANGED <<view, reply, service>>

\* "Create New Record Manually" with initial notes: between create and save
\* the handler calls add_note_to_record(record["id"], notes)
AddInitialNote ==
    /\ record # None
    /\ last.op = "create_injury_record"
    /\ LET a == add_note_to_record(health_records, record[1].id, "note", now)
       IN  /\ health_records' = a.store
           /\ last' = [op |-> "add_note_to_record", id |-> record[1].id,
                       arg |-> 1, ret |-> a.ret]
    /\ UNCHANGED <<record, nextId, now, nops, view, reply, service>>

\* save_record(record) ends the handler that created or edited the record;
\* arg tells whether a record with that id was stored already
SaveRecord ==
    /\ record # None
    /\ health_records' = save_record(health_records, record[1])
    /\ record' = None
    /\ last' = [op |-> "save_record", id |-> record[1].id,
                arg |-> IF IndexOf(health_records, record[1].id) # 0 THEN 1 ELSE 0,
                ret |-> TRUE]
    /\ UNCHANGED <<nextId, now, nops, view, reply, service>>

UpdateRecoveryProgress ==
    /\ nops < MaxOps
    /\ record = None
    /\ \E id \in RecordIds, p \in ProgressValues, pain \in PainLevels,
          n \in ProgressNotes, photo \in Photos :
          LET u == update_recovery_progress(health_records, id, p, pain, n, photo, now)
          IN  /\ health_records' = u.store
              /\ last' = [op |-> "update_recovery_progress", id |-> id,
                          arg |-> p, ret |-> u.ret]
    /\ nops' = nops + 1
    /\ now' = now + 1
    /\ UNCHANGED <<record, nextId, view, reply, service>>

MarkFirstAidStepCompleted ==
    /\ nops < MaxOps
    /\ record = None
    /\ \E id \in RecordIds, k \in StepIndexes, n \in NoteTexts :
          LET m == mark_first_aid_step_completed(health_records, id, k, n, now)
          IN  /\ health_records' = m.store
              /\ last' = [op |-> "mark_first_aid_step_completed", id |-> id,
                          arg |-> k, ret |-> m.ret]
    /\ nops' = nops + 1
    /\ now' = now + 1
    /\ UNCHANGED <<record, nextId, view, reply, service>>

AddNoteToRecord ==
    /\ nops < MaxOps
    /\ record = None
    /\ \E id \in RecordIds :
          LET a == add_note_to_record(health_records, id, "note", now)
          IN  /\ health_records' = a.store
              /\ last' = [op |-> "add_note_to_record", id |-> id, arg |-> 0, ret |-> a.ret]
    /\ nops' = nops + 1
    /\ now' = now + 1
    /\ UNCHANGED <<record, nextId, view, reply, service>>

AddMedication ==
    /\ nops < MaxOps
    /\ record = None
    /\ \E id \in RecordIds :
          LET a == add_medication(health_records, id, "aspirin", "100mg", None, now)
          IN  /\ health_records' = a.store
              /\ last' = [op |-> "add_medication", id |-> id, arg |-> 0, ret |-> a.ret]
    /\ nops' = nops + 1
    /\ now' = now + 1
    /\ UNCHANGED <<record, nextId, view, reply, service>>

AddPhotoToRecord ==
    /\ nops < MaxOps
    /\ record = None
    /\ \E id \in RecordIds, img \in Images, ty \in PhotoTypes :
          LET a == add_photo_to_record(health_records, id, img, ty, now)
          IN  /\ health_records' = a.store
              /\ last' = [op |-> "add_photo_to_record", id |-> id, arg |-> 0, ret |-> a.ret]
    /\ nops' = nops + 1
    /\ now' = now + 1
    /\ UNCHANGED <<record, nextId, view, reply, service>>

DeleteRecord ==
    /\ nops < MaxOps
    /\ record = None
    /\ \E id \in RecordIds :
          /\ health_records' = delete_record(health_records, id)
          /\ last' = [op |-> "delete_record", id |-> id, arg |-> 0, ret |-> TRUE]
    /\ nops' = nops + 1
    /\ now' = now + 1
    /\ UNCHANGED <<record, nextId, view, reply, service>>

\* "Update Record Details", first half: record = get_record(current_record),
\* then record['body_part'] = body_part when one was typed.  The record is the
\* stored object, so the assignment shows in the store at once; SaveRecord
\* is the second half.
EditRecordDetails ==
    /\ nops < MaxOps
    /\ record = None
    /\ \E id \in RecordIds, b \in BodyParts :
          /\ get_record(health_records, id) # None
          /\ LET rec == get_record(health_records, id)[1]
                 r1 == IF b # None THEN [rec EXCEPT !.body_part = b] ELSE rec
             IN  /\ health_records' = [health_records EXCEPT ![IndexOf(health_records, id)] = r1]
                 /\ record' = Some(r1)
          /\ last' = [op |-> "get_record", id |-> id, arg |-> 1, ret |-> TRUE]
    /\ nops' = nops + 1
    /\ now' = now + 1
    /\ UNCHANGED <<nextId, view, reply, service>>

\* get_record(record_id): ret tells whether a record was found
GetRecord ==
    /\ nops < MaxOps
    /\ record = None
    /\ \E id \in RecordIds :
          last' = [op |-> "get_record", id |-> id, arg |-> 0,
                   ret |-> get_record(health_records, id) # None]
    /\ nops' = nops + 1
    /\ now' = now + 1
    /\ UNCHANGED <<health_records, record, nextId, view, reply, service>>

Next ==
    \/ CreateInjuryRecord
    \/ AddInitialNote
    \/ SaveRecord
    \/ UpdateRecoveryProgress
    \/ MarkFirstAidStepCompleted
    \/ AddNoteToRecord
    \/ AddMedication
    \/ AddPhotoToRecord
    \/ DeleteRecord
    \/ EditRecordDetails
    \/ GetRecord

Spec == Init /\ [][Next]_vars

(* --------------------- listing the records, sorted --------------------- *)
\* a stored record as create_injury_record, save_record and at most one
\* update_recovery_progress leave it
ListedRecord(id, severity, progress) ==
    LET rec == NewRecord(id, id, "cut", severity, None, <<>>)
    IN  IF progress = None
        THEN rec
        ELSE update_recovery_progress(<<rec>>, id, progress[1], None, None, None,
                                      MaxSortLen + 1).store[1]

\* the progress of the one update a listed record has had, if any
ListedProgress == {None} \cup {Some(p) : p \in ProgressValues}

\* the store holds up to MaxSortLen records, in the order they were saved
InitSort ==
    /\ \E n \in 0..MaxSortLen :
          \E sev \in [1..n -> Severities], prog \in [1..n -> ListedProgress] :
              health_records = [i \in 1..n |-> ListedRecord(i, sev[i], prog[i])]
    /\ record = None
    /\ nextId = Len(health_records) + 1
    /\ now = MaxSortLen + 2
    /\ nops = 0
    /\ last = [op |-> "init", id |-> 0, arg |-> 0, ret |-> TRUE]
    /\ view = NoView
    /\ reply = NoReply
    /\ service = NoService

SortKeys == {"timestamp", "severity", "status", "none"}

GetAllRecords ==
    /\ \E sort_by \in SortKeys, reverse \in BOOLEAN :
          view' = [sort_by |-> sort_by, reverse |-> reverse,
                   records |-> get_all_records(health_records, sort_by, reverse)]
    /\ last' = [op |-> "get_all_records", id |-> 0, arg |-> 0, ret |-> TRUE]
    /\ UNCHANGED <<health_records, record, nextId, now, nops, reply, service>>

NextSort == GetAllRecords

SpecSort == InitSort /\ [][NextSort]_vars

(* ------------------- searching and counting the store ------------------ *)
\* the texts of the stored records and of the criteria
CutText == <<"C", "u", "t">>
QueryBodyParts == {None, Some(<<>>), Some(<<"A", "r", "m">>), Some(<<"l", "e", "g">>)}
QueryProgress == {None, Some(100)}
SeverityCriteria == {None, Some("SEVERE")}
StatusCriteria == {None, Some("healed")}
BodyPartCriteria == {None, Some(<<"A", "R", "M">>)}
DateCriteria == {None, Some(2)}
SearchQueries == {None, Some(<<"C", "U">>), Some(<<"a", "r">>)}

\* a stored record as the app leaves it: saved automatically after an
\* analysis (no body part) or from the manual form (the body part typed, ""
\* if the field was left empty), then updated at most once
QueryRecord(id, severity, body_part, progress) ==
    LET rec == NewRecord(id, id, CutText, severity, body_part, <<>>)
    IN  IF progress = None
        THEN rec
        ELSE update_recovery_progress(<<rec>>, id, progress[1], None, None, None,
                                      MaxQueryLen + 1).store[1]

\* the store holds up to MaxQueryLen records, in the order they were saved
InitQuery ==
    /\ \E n \in 0..MaxQueryLen :
          \E sev \in [1..n -> Severities], bp \in [1..n -> QueryBodyParts], prog \in [1..n -> QueryProgress] :
              health_records = [i \in 1..n |-> QueryRecord(i, sev[i], bp[i], prog[i])]
    /\ record = None
    /\ nextId = Len(health_records) + 1
    /\ now = MaxQueryLen + 2
    /\ nops = 0
    /\ last = [op |-> "init", id |-> 0, arg |-> 0, ret |-> TRUE]
    /\ view = NoView
    /\ reply = NoReply
    /\ service = NoService

\* filter_records and get_statistics change nothing a later call could see,
\* so one call is taken from each store
FilterRecords ==
    /\ nops = 0
    /\ nops' = nops + 1
    /\ \E severity \in SeverityCriteria, status \in StatusCriteria, body_part \in BodyPartCriteria :
       \E date_from \in DateCriteria, date_to \in DateCriteria, search_query \in SearchQueries :
          LET out == filter_records(health_records, severity, status, body_part,
                                    date_from, date_to, search_query)
          IN  /\ reply' = [op |-> "filter_records", severity |-> severity, status |-> status,
                           body_part |-> body_part, date_from |-> date_from,
                           date_to |-> date_to, search_query |-> search_query,
                           raised |-> out.raised, records |-> out.records]
              /\ last' = [op |-> "filter_records", id |-> 0, arg |-> 0, ret |-> ~out.raised]
    /\ UNCHANGED <<health_records, record, nextId, now, view, service>>

GetStatistics ==
    /\ nops = 0
    /\ nops' = nops + 1
    /\ reply' = [op |-> "get_statistics", stats |-> get_statistics(health_records)]
    /\ last' = [op |-> "get_statistics", id |-> 0, arg |-> 0, ret |-> TRUE]
    /\ UNCHANGED <<health_records, record, nextId, now, view, service>>

NextQuery ==
    \/ FilterRecords
    \/ GetStatistics

SpecQuery == InitQuery /\ [][NextQuery]_vars

(* ------------------------ the LLM's answers, read ----------------------- *)
\* the pieces an answer of the LLM is made of
ResponsePieces ==
    { <<"S", "E", "V", "E", "R", "I", "T", "Y", ":">>,
      <<"s", "e", "v", "e", "r", "i", "t", "y", ":">>,
      <<" ">>,
      <<"\n">>,
      <<"S", "E", "V", "E", "R", "E">>,
      <<"s", "e", "v", "e", "r", "e">>,
      <<"M", "I", "N", "O", "R">>,
      <<"u", "r", "g", "e", "n", "t">> }
RECURSIVE Concat(_)
Concat(pieces) == IF pieces = <<>> THEN <<>> ELSE Head(pieces) \o Concat(Tail(pieces))
\* the severity the caller passes to generate_first_aid_steps
SeverityContexts == {None, Some(<<>>), Some(<<"S", "E", "V", "E", "R", "E">>), Some(<<"S", "e", "v", "e", "r", "e">>), Some(<<"M", "I", "N", "O", "R">>)}

\* generate_content raises, or returns an answer of up to MaxResponsePieces
\* pieces (no text at all when there is none)
InitAnalyze ==
    /\ \/ service = [outcome |-> "raises", text |-> <<>>]
       \/ \E n \in 0..MaxResponsePieces : \E pieces \in [1..n -> ResponsePieces] :
             service = [outcome |-> "returns", text |-> Concat(pieces)]
    /\ health_records = <<>>
    /\ record = None
    /\ nextId = 1
    /\ now = 0
    /\ nops = 0
    /\ last = [op |-> "init", id |-> 0, arg |-> 0, ret |-> TRUE]
    /\ view = NoView
    /\ reply = NoReply

\* the answer is read once: reading it changes nothing a later call could see
AnalyzeImage ==
    /\ nops = 0
    /\ nops' = nops + 1
    /\ reply' = [op |-> "analyze_image", result |-> analyze_image(service)]
    /\ last' = [op |-> "analyze_image", id |-> 0, arg |-> 0, ret |-> TRUE]
    /\ UNCHANGED <<health_records, record, nextId, now, view, service>>

GenerateFirstAidSteps ==
    /\ nops = 0
    /\ nops' = nops + 1
    /\ \E severity \in SeverityContexts :
          reply' = [op |-> "generate_first_aid_steps", severity |-> severity,
                    result |-> generate_first_aid_steps(service, severity)]
    /\ last' = [op |-> "generate_first_aid_steps", id |-> 0, arg |-> 0, ret |-> TRUE]
    /\ UNCHANGED <<health_records, record, nextId, now, view, service>>

NextAnalyze ==
    \/ AnalyzeImage
    \/ GenerateFirstAidSteps

SpecAnalyze == InitAnalyze /\ [][NextAnalyze]_vars

(* -------------------------- the steps, listed -------------------------- *)
\* the characters a text of steps is made of
StepChars == {"1", ".", " ", "\t", "-", "a", "\n"}

\* generate_first_aid_steps returned a text of up to MaxStepsLen characters
InitSteps ==
    /\ \E n \in 0..MaxStepsLen : \E text \in [1..n -> StepChars] :
          service = [outcome |-> "returns", text |-> text]
    /\ health_records = <<>>
    /\ record = None
    /\ nextId = 1
    /\ now = 0
    /\ nops = 0
    /\ last = [op |-> "init", id |-> 0, arg |-> 0, ret |-> TRUE]
    /\ view = NoView
    /\ reply = NoReply

ExtractSteps ==
    /\ nops = 0
    /\ nops' = nops + 1
    /\ reply' = [op |-> "steps_list", steps |-> steps_list(service.text)]
    /\ last' = [op |-> "steps_list", id |-> 0, arg |-> 0, ret |-> TRUE]
    /\ UNCHANGED <<health_records, record, nextId, now, view, service>>

NextSteps == ExtractSteps

SpecSteps == InitSteps /\ [][NextSteps]_vars

(* ------------------------ the facilities, listed ------------------------ *)
\* the lines an answer listing facilities is made of: one for each pattern,
\* with and without coordinates, one with a single part, a heading, a line
\* whose comma has whitespace before it, and an empty line
FacilityLines ==
    { <<"1", ".", " ", "H", " ", "|", " ", "M", ",", " ", "A", " ", "|", " ", "3", ".", "2", ",", " ", "-", "9", ".", "7">>,
      <<"2", ".", " ", "S", ".", " ", "C", ",", " ", "5", " ", "O">>,
      <<"3", ".", " ", "C", ",", " ", "O", " ", "(", "3", ".", "1", ",", " ", "-", "9", ".", "5", ")">>,
      <<"4", ".", " ", "C", " ", "-", " ", "O">>,
      <<"5", ".", " ", "C">>,
      <<"N", ":", " ", "1", ",", " ", "2">>,
      <<"6", ".", " ", "C", " ", "|", " ", "O", " ", "|", "3", ".", "2", " ", ",", " ", "9">>,
      <<>> }
GeocoderOutcomes == {"found", "none", "raises"}
RECURSIVE JoinLines(_)
JoinLines(lines) ==
    IF lines = <<>>
    THEN <<>>
    ELSE IF Len(lines) = 1
    THEN lines[1]
    ELSE lines[1] \o <<"\n">> \o JoinLines(Tail(lines))

\* the LLM listed up to MaxLines lines, and the geocoder will answer each
\* request in one of its three ways
InitFacilities ==
    /\ \E n \in 0..MaxLines :
          \E lines \in [1..n -> FacilityLines], outcomes \in [1..n -> GeocoderOutcomes] :
              service = [outcome |-> "returns", text |-> JoinLines(lines),
                         geocoder |-> outcomes]
    /\ health_records = <<>>
    /\ record = None
    /\ nextId = 1
    /\ now = 0
    /\ nops = 0
    /\ last = [op |-> "init", id |-> 0, arg |-> 0, ret |-> TRUE]
    /\ view = NoView
    /\ reply = NoReply

ParseFacilities ==
    /\ nops = 0
    /\ nops' = nops + 1
    /\ LET out == parse_facilities_to_df(service.text, service.geocoder)
       IN  /\ reply' = [op |-> "parse_facilities_to_df", raised |-> out.raised,
                        data |-> out.data, used |-> out.used, calls |-> out.calls]
           /\ last' = [op |-> "parse_facilities_to_df", id |-> 0, arg |-> 0,
                       ret |-> ~out.raised]
    /\ UNCHANGED <<health_records, record, nextId, now, view, service>>

NextFacilities == ParseFacilities

SpecFacilities == InitFacilities /\ [][NextFacilities]_vars

(* ------------------------------- claims -------------------------------- *)
\* the stored record with this id (only where one is stored)
Stored(records, record_id) == records[IndexOf(records, record_id)]
IsStored(records, record_id) == IndexOf(records, record_id) # 0
\* the last call was a successful update_recovery_progress
Updated == last.op = "update_recovery_progress" /\ last.ret
\* the progress values of recovery.updates, in order
ProgressHistory(rec) ==
    [k \in 1..Len(rec.recovery.updates) |-> rec.recovery.updates[k].progress]

\* C1: after update_recovery_progress(id, p) returns true, with p in the
\* documented range 0..100, the record's status is healed iff p >= 100,
\* recovering iff 75 <= p < 100, healing iff 0 < p < 75 and active iff p = 0,
\* whatever updates came before.
C1_StatusFollowsProgress ==
    (Updated /\ last.arg \in 0..100) =>
        LET p == last.arg
            st == Stored(health_records, last.id).status
        IN  /\ (st = "healed") <=> (p >= 100)
            /\ (st = "recovering") <=> (75 <= p /\ p < 100)
            /\ (st = "healing") <=> (0 < p /\ p < 75)
            /\ (st = "active") <=> (p = 0)

\* C2: no two stored records have the same id.
C2_UniqueIds ==
    \A i, j \in 1..Len(health_records) :
        i # j => health_records[i].id # health_records[j].id

\* a record stored a second time while another record is stored too
C2_Witness ==
    /\ last.op = "save_record"
    /\ last.arg = 1
    /\ Len(health_records) = 2

\* C3: create_injury_record called with a non-empty list of images returns a
\* record whose photos.before has one entry per image.
C3_InitialPhotosKept ==
    (last.op = "create_injury_record" /\ last.arg > 0) =>
        Len(record[1].photos.before) = last.arg

CompletedValid(rec) ==
    LET completed == rec.first_aid_steps.completed
    IN  /\ \A k \in 1..Len(completed) :
              completed[k] \in 0..(Len(rec.first_aid_steps.recommended) - 1)
        /\ \A k, l \in 1..Len(completed) : k # l => completed[k] # completed[l]

\* C5: first_aid_steps.completed stays a duplicate-free list of valid indices
\* into recommended, and a mark_first_aid_step_completed call with an
\* out-of-range or already completed index returns false and changes nothing.
C5_CompletedStepsValid ==
    [][ /\ \A i \in 1..Len(health_records') : CompletedValid(health_records'[i])
        /\ (last'.op = "mark_first_aid_step_completed" /\ IsStored(health_records, last'.id)) =>
              LET rec == Stored(health_records, last'.id)
                  k == last'.arg
              IN  (\/ k < 0
                   \/ k >= Len(rec.first_aid_steps.recommended)
                   \/ InSeq(k, rec.first_aid_steps.completed))
                  => (~last'.ret /\ health_records' = health_records) ]_vars

\* a completed step was marked again and the call was rejected
C5_Witness ==
    /\ last.op = "mark_first_aid_step_completed"
    /\ ~last.ret
    /\ IsStored(health_records, last.id)
    /\ InSeq(last.arg, Stored(health_records, last.id).first_aid_steps.completed)

MutatingOps ==
    {"update_recovery_progress", "mark_first_aid_step_completed", "add_note_to_record",
     "add_medication", "add_photo_to_record"}

\* C6: update_recovery_progress, mark_first_aid_step_completed,
\* add_note_to_record, add_medication and add_photo_to_record return false and
\* leave the store unchanged when no stored record has the id; get_record
\* finds nothing for such an id.
C6_UnknownIdRejected ==
    [][ /\ (last'.op \in MutatingOps /\ ~IsStored(health_records, last'.id)) =>
              (~last'.ret /\ health_records' = health_records)
        /\ (last'.op = "get_record" /\ ~IsStored(health_records, last'.id)) =>
              (~last'.ret /\ get_record(health_records, last'.id) = None) ]_vars

\* a note was addressed to an id that is not stored while a record is stored
C6_Witness ==
    /\ last.op = "add_note_to_record"
    /\ ~last.ret
    /\ ~IsStored(health_records, last.id)
    /\ Len(health_records) >= 1

\* C7: after save_record(r), get_record(r.id) is r; a record stored under that
\* id is replaced where it stands and the count is unchanged, otherwise r is
\* appended and the count grows by one.
C7_SaveThenGet ==
    [][ last'.op = "save_record" =>
          LET r == record[1]
              i == IndexOf(health_records, r.id)
          IN  /\ get_record(health_records', r.id) = Some(r)
              /\ IF i # 0
                 THEN /\ Len(health_records') = Len(health_records)
                      /\ health_records'[i] = r
                      /\ \A j \in 1..Len(health_records) :
                            j # i => health_records'[j] = health_records[j]
                 ELSE health_records' = Append(health_records, r) ]_vars

\* the first of two stored records was edited and saved again
C7_Witness ==
    /\ last.op = "save_record"
    /\ last.arg = 1
    /\ Len(health_records) = 2
    /\ health_records[1].id = last.id
    /\ health_records[1].body_part = Some("arm")

\* C8: after delete_record(id) no stored record has that id, and the records
\* with other ids are all still stored, unchanged and in the same order; this
\* also holds when the id was not stored.
C8_DeleteRemovesOnlyThatId ==
    [][ last'.op = "delete_record" =>
          /\ last'.ret
          /\ get_record(health_records', last'.id) = None
          /\ health_records' = SelectSeq(health_records, LAMBDA r : r.id # last'.id) ]_vars

\* the first of two stored records was deleted and the second is still stored
C8_Witness ==
    /\ last.op = "delete_record"
    /\ last.id = 1
    /\ Len(health_records) = 1
    /\ health_records[1].id = 2

\* C9: a stored record without updates has progress 0 and status active; every
\* successful update_recovery_progress appends exactly one entry to
\* recovery.updates; a first update to 80 gives status recovering with one
\* entry, and a following update to 100 gives status healed with two.
C9_UpdatesGrowByOne ==
    [][ /\ \A i \in 1..Len(health_records') :
              health_records'[i].recovery.updates = <<>> =>
                  /\ health_records'[i].recovery.progress_percentage = 0
                  /\ health_records'[i].status = "active"
        /\ (last'.op = "update_recovery_progress" /\ last'.ret) =>
              LET old == Stored(health_records, last'.id)
                  new == Stored(health_records', last'.id)
              IN  /\ Len(new.recovery.updates) = Len(old.recovery.updates) + 1
                  /\ (old.recovery.updates = <<>> /\ last'.arg = 80) =>
                        (new.status = "recovering" /\ Len(new.recovery.updates) = 1)
                  /\ (ProgressHistory(old) = <<80>> /\ last'.arg = 100) =>
                        (new.status = "healed" /\ Len(new.recovery.updates) = 2) ]_vars

\* the record was updated to 80 and then to 100
C9_Witness ==
    /\ Updated
    /\ ProgressHistory(Stored(health_records, last.id)) = <<80, 100>>
    /\ Stored(health_records, last.id).status = "healed"

\* the order C10 claims: active, healing, recovering, healed, archived
ClaimedStatusRank(status) ==
    CASE status = "active" -> 4
      [] status = "healing" -> 3
      [] status = "recovering" -> 2
      [] status = "healed" -> 1
      [] OTHER -> 0

\* C10: get_all_records(sort_by="status", reverse=True) lists the records in
\* the order active, healing, recovering, healed, archived: every recovering
\* record after all healing records and before all healed records.
C10_RecoveringBetweenHealingAndHealed ==
    (view.sort_by = "status" /\ view.reverse) =>
        \A i, j \in 1..Len(view.records) :
            i < j => ClaimedStatusRank(view.records[i].status)
                        >= ClaimedStatusRank(view.records[j].status)

\* the records of the store satisfying every criterion of the last
\* filter_records call; a record without a body part has none to match
Matches(rec) ==
    /\ Given(reply.severity) => rec.severity = reply.severity[1]
    /\ Given(reply.status) => rec.status = reply.status[1]
    /\ GivenText(reply.body_part) =>
          (rec.body_part # None /\ Lower(rec.body_part[1]) = Lower(reply.body_part[1]))
    /\ reply.date_from # None => reply.date_from[1] <= rec.timestamp
    /\ reply.date_to # None => rec.timestamp <= reply.date_to[1]
    /\ GivenText(reply.search_query) =>
          LET q == Lower(reply.search_query[1])
          IN  \/ Contains(q, Lower(rec.injury_type))
              \/ Contains(q, Lower(rec.description))
              \/ (rec.body_part # None /\ Contains(q, Lower(rec.body_part[1])))
Matching == {health_records[k] : k \in {i \in 1..Len(health_records) : Matches(health_records[i])}}
Returned == {reply.records[k] : k \in 1..Len(reply.records)}

\* C11: filter_records never raises, whatever the store and the criteria: a
\* search_query or body_part filter over records without a body part
\* returns a list.
C11_FilterNeverRaises ==
    reply.op = "filter_records" => ~reply.raised

\* C12: filter_records returns exactly the stored records that satisfy
\* every supplied criterion: severity and status by equality, date_from <=
\* timestamp <= date_to, search_query a case-insensitive substring of
\* injury_type, description or body_part.
C12_FilterReturnsMatches ==
    reply.op = "filter_records" =>
        /\ ~reply.raised
        /\ Returned = Matching
        /\ Len(reply.records) = Cardinality(Matching)

\* whenever filter_records returns, it returns the matching records
FilterReturnsMatchesUnlessRaised ==
    (reply.op = "filter_records" /\ ~reply.raised) =>
        (Returned = Matching /\ Len(reply.records) = Cardinality(Matching))

\* C13: get_statistics on an empty store returns the keys of the non-empty
\* case with zero or empty values.
C13_EmptyStatistics ==
    (reply.op = "get_statistics" /\ health_records = <<>>) =>
        reply.stats = [ total_records |-> 0,
                        by_severity |-> EmptyDict,
                        by_status |-> EmptyDict,
                        most_common_body_part |-> None,
                        active_injuries |-> 0,
                        healed_injuries |-> 0 ]

RECURSIVE SumOver(_, _)
SumOver(dict, keys) ==
    IF keys = {}
    THEN 0
    ELSE LET key == CHOOSE k \in keys : TRUE
         IN  dict[key] + SumOver(dict, keys \ {key})
\* the records in the order get_statistics iterates over them, the body
\* parts they specify, and where each is first met
Iterated == get_all_records(health_records, "timestamp", TRUE)
SpecifiedBodyParts ==
    {Iterated[k].body_part[1] : k \in {i \in 1..Len(Iterated) : GivenText(Iterated[i].body_part)}}
RecordsWith(bp) == {k \in 1..Len(Iterated) : Iterated[k].body_part = Some(bp)}
FirstMet(bp) == CHOOSE k \in RecordsWith(bp) : \A j \in RecordsWith(bp) : k <= j

KeptIds == {id \in RecordIds : IsStored(health_records, id) /\ IsStored(health_records', id)}
IsPrefix(a, b) == Len(a) <= Len(b) /\ SubSeq(b, 1, Len(a)) = a

\* C15: first_aid_steps.completed_at is unset exactly while completed is
\* empty, the first successful mark_first_aid_step_completed sets it to the
\* time of that call, and no later step changes it.
C15_CompletedAtSetOnce ==
    [][ /\ \A i \in 1..Len(health_records') :
              LET f == health_records'[i].first_aid_steps
              IN  (f.completed = <<>>) <=> (f.completed_at = None)
        /\ \A id \in KeptIds :
              LET old == Stored(health_records, id).first_aid_steps
                  new == Stored(health_records', id).first_aid_steps
              IN  /\ old.completed_at # None => new.completed_at = old.completed_at
                  /\ (/\ last'.op = "mark_first_aid_step_completed"
                      /\ last'.ret
                      /\ last'.id = id
                      /\ old.completed = <<>>) => new.completed_at = Some(now) ]_vars

\* a second step was completed later than the first
C15_Witness ==
    /\ last.op = "mark_first_aid_step_completed"
    /\ last.ret
    /\ LET f == Stored(health_records, last.id).first_aid_steps
       IN  /\ Len(f.completed) = 2
           /\ f.completed_at # None
           /\ f.completed_at[1] < now - 1

\* C16 as stated: every stored record's recovery.progress_percentage is in
\* 0..100, whatever value is passed to update_recovery_progress.
C16_ProgressInRange ==
    \A i \in 1..Len(health_records) :
        health_records[i].recovery.progress_percentage \in 0..100

\* C16, the statement that holds: recovery.progress_percentage is 0 for a
\* record without updates and otherwise the value passed to the latest
\* update_recovery_progress call, unclamped, so it is in 0..100 whenever
\* every value passed for that record was.
C16_ProgressIsLatestValue ==
    \A i \in 1..Len(health_records) :
        LET rec == health_records[i]
            h == ProgressHistory(rec)
        IN  /\ rec.recovery.progress_percentage = IF h = <<>> THEN 0 ELSE h[Len(h)]
            /\ (\A k \in 1..Len(h) : h[k] \in 0..100) =>
                  rec.recovery.progress_percentage \in 0..100
            /\ (Updated /\ last.id = rec.id) =>
                  rec.recovery.progress_percentage = last.arg

\* a record was updated to 50 and then to a value below 0
C16_Witness ==
    /\ Updated
    /\ ProgressHistory(Stored(health_records, last.id)) = <<50, -5>>
    /\ Stored(health_records, last.id).recovery.progress_percentage = -5

\* C17: create_injury_record leaves the store as it was, with or without
\* images, and the record it returns is not stored until save_record.
C17_CreateDoesNotPersist ==
    [][ /\ last'.op = "create_injury_record" =>
              /\ health_records' = health_records
              /\ get_record(health_records', last'.id) = None
        /\ (record' # None /\ last'.op \in {"create_injury_record", "add_note_to_record"}) =>
              ~IsStored(health_records', record'[1].id)
        /\ (last'.op = "save_record" /\ last'.arg = 0) =>
              (~IsStored(health_records, last'.id) /\ IsStored(health_records', last'.id)) ]_vars

\* a record was created with an image while another record is stored
C17_Witness ==
    /\ last.op = "create_injury_record"
    /\ last.arg = 1
    /\ Len(health_records) = 1
    /\ record # None
    /\ ~IsStored(health_records, record[1].id)

\* C18: notes, medications and recovery.updates of a stored record only grow
\* at their end: no step removes, reorders or alters an entry, a successful
\* add_note_to_record appends exactly one note, a successful add_medication
\* exactly one medication, and neither touches the other sequences.
C18_AppendOnly ==
    [][ \A id \in KeptIds :
          LET old == Stored(health_records, id)
              new == Stored(health_records', id)
          IN  /\ IsPrefix(old.notes, new.notes)
              /\ IsPrefix(old.medications, new.medications)
              /\ IsPrefix(old.recovery.updates, new.recovery.updates)
              /\ (last'.op = "add_note_to_record" /\ last'.ret /\ last'.id = id) =>
                    /\ Len(new.notes) = Len(old.notes) + 1
                    /\ new.notes[Len(new.notes)].content = "note"
                    /\ new.medications = old.medications
                    /\ new.recovery.updates = old.recovery.updates
              /\ (last'.op = "add_medication" /\ last'.ret /\ last'.id = id) =>
                    /\ Len(new.medications) = Len(old.medications) + 1
                    /\ new.medications[Len(new.medications)].name = "aspirin"
                    /\ new.notes = old.notes
                    /\ new.recovery.updates = old.recovery.updates
              /\ (last'.op \in {"update_recovery_progress", "mark_first_aid_step_completed"}) =>
                    (new.notes = old.notes /\ new.medications = old.medications) ]_vars

\* a second note was added later than the first
C18_Witness ==
    /\ last.op = "add_note_to_record"
    /\ last.ret
    /\ LET notes == Stored(health_records, last.id).notes
       IN  Len(notes) = 2 /\ notes[1].timestamp < notes[2].timestamp

\* C19: no step changes the id, timestamp, severity or initial_analysis of a
\* stored record.
C19_CreationFieldsImmutable ==
    [][ \A id \in KeptIds :
          LET old == Stored(health_records, id)
              new == Stored(health_records', id)
          IN  /\ new.id = old.id
              /\ new.timestamp = old.timestamp
              /\ new.severity = old.severity
              /\ new.initial_analysis = old.initial_analysis ]_vars

\* a photo was added to a record after the time the record was created
C19_Witness ==
    /\ last.op = "add_photo_to_record"
    /\ last.ret
    /\ LET rec == Stored(health_records, last.id)
       IN  /\ Len(rec.photos.during) = 1
           /\ rec.photos.during[1].timestamp > rec.timestamp

\* C20: no stored record and no record returned by create_injury_record has
\* status or recovery.status "archived".
C20_NeverArchived ==
    /\ \A i \in 1..Len(health_records) :
          /\ health_records[i].status \in {"active", "healing", "recovering", "healed"}
          /\ health_records[i].recovery.status \in {"initial", "healing", "recovering", "healed"}
    /\ record # None =>
          (record[1].status # "archived" /\ record[1].recovery.status # "archived")

\* a healed record was updated again with a value below 0
C20_Witness ==
    /\ Updated
    /\ ProgressHistory(Stored(health_records, last.id)) = <<100, -5>>
    /\ Stored(health_records, last.id).status = "healed"

\* C28: the entry update_recovery_progress appends records the record's
\* values as they stand after the call: its progress is
\* recovery.progress_percentage and its pain_level is recovery.pain_level,
\* also when the call omits pain_level after an earlier call set one.
C28_EntryRecordsCurrentValues ==
    Updated =>
        LET rec == Stored(health_records, last.id)
            entry == rec.recovery.updates[Len(rec.recovery.updates)]
        IN  /\ entry.progress = rec.recovery.progress_percentage
            /\ entry.pain_level = rec.recovery.pain_level

\* C29: when the manual "Create New Record" handler is given initial notes
\* (create_injury_record, add_note_to_record, save_record), the record it
\* stores has one note with that content.
C29_InitialNoteStored ==
    [][ (/\ record # None
         /\ last.op = "add_note_to_record"
         /\ last'.op = "save_record") =>
            LET notes == Stored(health_records', last'.id).notes
            IN  Len(notes) = 1 /\ notes[1].content = "note" ]_vars

\* the ids of the stored records, in the order of the store
StoredIds(records) == [k \in 1..Len(records) |-> records[k].id]
OthersUnchanged(id) ==
    \A k \in 1..Len(health_records) :
        health_records[k].id # id =>
            (k <= Len(health_records') /\ health_records'[k] = health_records[k])

C21_SevereParsed ==
    (/\ reply.op = "analyze_image"
     /\ service.outcome = "returns"
     /\ Contains(<<"S", "E", "V", "E", "R", "I", "T", "Y", ":", " ", "S", "E", "V", "E", "R", "E">>, Upper(service.text))) =>
        /\ reply.result.severity = SevereWord
        /\ reply.result.recommendation = Recommendation(SevereWord)

\* the messages that only tell the user to consult a professional
ConsultMessages ==
    { "Consult with healthcare professional.",
      "If you have concerns, consult a healthcare professional.",
      "Please consult a healthcare professional." }

\* C22: for every answer without a "SEVERITY:" marker, an empty or absent
\* answer and a failed call included, the parsed severity is "UNKNOWN" and
\* the recommendation is a consult message; analyze_image returns a result.
C22_NoMarkerUnknown ==
    (/\ reply.op = "analyze_image"
     /\ (service.outcome = "raises" \/ ~Contains(SeverityMarker, service.text))) =>
        /\ reply.result.severity = UnknownSeverity
        /\ reply.result.recommendation \in ConsultMessages

\* an answer names a severity but has no marker in upper case
C22_Witness ==
    /\ reply.op = "analyze_image"
    /\ service.outcome = "returns"
    /\ Contains(<<"s", "e", "v", "e", "r", "i", "t", "y", ":", " ", "s", "e", "v", "e", "r", "e">>, service.text)
    /\ reply.result.severity = UnknownSeverity

\* C23: needs_emergency is true exactly when the severity passed contains
\* "SEVERE" in any letter case, whether the LLM returns a text, returns
\* nothing or the call fails.
C23_NeedsEmergencyIffSevere ==
    reply.op = "generate_first_aid_steps" =>
        (reply.result.needs_emergency <=>
            (GivenText(reply.severity) /\ Contains(SevereWord, Upper(reply.severity[1]))))

\* the decimal digits of a number
RECURSIVE Decimal(_)
Decimal(k) == IF k < 10 THEN <<Digits[k + 1]>> ELSE Append(Decimal(k \div 10), Digits[(k % 10) + 1])
\* the steps written as the lines "<k>. <step>"
RECURSIVE NumberedFrom(_, _)
NumberedFrom(steps, k) ==
    IF steps = <<>>
    THEN <<>>
    ELSE Decimal(k) \o <<".", " ">> \o Head(steps)
            \o (IF Len(steps) > 1 THEN <<"\n">> ELSE <<>>)
            \o NumberedFrom(Tail(steps), k + 1)
Numbered(steps) == NumberedFrom(steps, 1)

\* C24: extracting the steps from the numbered list of the steps extracted
\* from any text gives the same steps in the same order, and no extracted
\* step is empty.
C24_ExtractionIdempotent ==
    reply.op = "steps_list" =>
        /\ steps_list(Numbered(reply.steps)) = reply.steps
        /\ \A k \in 1..Len(reply.steps) : reply.steps[k] # <<>>

\* no extracted step is empty, whatever the text
StepsNeverEmpty ==
    reply.op = "steps_list" => \A k \in 1..Len(reply.steps) : reply.steps[k] # <<>>

\* the stripped lines of the text that was parsed, the first of the four
\* patterns each matches (0 if none, or if the line does not start with a
\* number and a period), and the lines that match one
ParsedLines == [k \in 1..Len(SplitLines(service.text)) |-> Strip(SplitLines(service.text)[k])]
FirstStrategy(line) ==
    IF line = <<>> \/ OrdinalEnd(line) = 0 THEN 0
    ELSE IF Match1(line) # None THEN 1
    ELSE IF Match2(line) # None THEN 2
    ELSE IF Match3(line) # None THEN 3
    ELSE IF Match4(line) # None /\ Len(StrippedParts(SplitDelimiters(Match4(line)[1]))) >= 2 THEN 4
    ELSE 0
MatchingLines == {k \in 1..Len(ParsedLines) : FirstStrategy(ParsedLines[k]) # 0}
\* the matching lines whose address goes to the geocoder, and how many of
\* them stand before line k
GeocodedLines == {k \in MatchingLines : FirstStrategy(ParsedLines[k]) \in {3, 4}}
GeocodedBefore(k) == Cardinality({j \in GeocodedLines : j < k})
\* the number of the request at which the geocoder raises first, 0 if the
\* parse makes no such request
FirstRaise ==
    LET raising == {j \in 1..Cardinality(GeocodedLines) : service.geocoder[j] = "raises"}
    IN  IF raising = {} THEN 0 ELSE CHOOSE j \in raising : \A o \in raising : j <= o

\* C25: when the geocoding of one facility's address times out or errors,
\* parse_facilities_to_df does not raise: that facility is emitted with name
\* and address and without coordinates, and every later line is parsed.
C25_GeocoderErrorTolerated ==
    (reply.op = "parse_facilities_to_df" /\ FirstRaise # 0) =>
        /\ ~reply.raised
        /\ Len(reply.data) = Cardinality(MatchingLines)
        /\ \A j \in 1..Len(reply.used) :
              (/\ reply.used[j].by \in {3, 4}
               /\ service.geocoder[GeocodedBefore(reply.used[j].line) + 1] = "raises") =>
                  DOMAIN reply.data[j] = {"name", "address"}

\* C26: each line is given to the patterns in the order 1, 2, 3, 4 and the
\* first that matches is the only one used, so a line gives at most one
\* facility, the facilities stand in the order of their lines, and a line
\* that does not start with a number and a period or matches no pattern
\* gives none.
C26_FirstMatchingStrategy ==
    reply.op = "parse_facilities_to_df" =>
        /\ Len(reply.data) = Len(reply.used)
        /\ \A j \in 1..Len(reply.used) :
              /\ reply.used[j].line \in MatchingLines
              /\ reply.used[j].by = FirstStrategy(ParsedLines[reply.used[j].line])
              /\ \A i \in 1..(j - 1) : reply.used[i].line < reply.used[j].line
        /\ ~reply.raised =>
              {reply.used[j].line : j \in 1..Len(reply.used)} = MatchingLines
        /\ \A j \in 1..Len(reply.used) :
              ParsedLines[reply.used[j].line] = <<"1", ".", " ", "H", " ", "|", " ", "M", ",", " ", "A", " ", "|", " ", "3", ".", "2", ",", " ", "-", "9", ".", "7">> =>
                  reply.data[j] = [ name |-> <<"H">>, address |-> <<"M", ",", " ", "A">>,
                                    lat |-> [negative |-> FALSE, whole |-> 3, fraction |-> <<"2">>],
                                    lon |-> [negative |-> TRUE, whole |-> 9, fraction |-> <<"7">>] ]

\* a line with coordinates and a comma stands before a line with pipes, and
\* each gave its facility by the first pattern it matches
C26_Witness ==
    /\ reply.op = "parse_facilities_to_df"
    /\ Len(ParsedLines) = 2
    /\ ParsedLines[1] = <<"3", ".", " ", "C", ",", " ", "O", " ", "(", "3", ".", "1", ",", " ", "-", "9", ".", "5", ")">>
    /\ reply.used = <<[line |-> 1, by |-> 2], [line |-> 2, by |-> 1]>>
    /\ reply.data[1].name = <<"C">>

\* C27: for a line handled by pattern 3 or 4 the geocoder is called exactly
\* once, with the address extracted, and never for a line handled by
\* pattern 1 or 2; if it returns coordinates the facility carries them, if
\* it returns none the facility is emitted with name and address alone.
C27_GeocodedOncePerLine ==
    reply.op = "parse_facilities_to_df" =>
        /\ Len(reply.data) = Len(reply.used)
        /\ Len(reply.calls) =
              IF FirstRaise # 0 THEN FirstRaise ELSE Cardinality(GeocodedLines)
        /\ \A k \in GeocodedLines :
              LET n == GeocodedBefore(k) + 1
                  line == ParsedLines[k]
              IN  n <= Len(reply.calls) =>
                     /\ reply.calls[n] =
                           IF FirstStrategy(line) = 3
                           THEN Strip(Match3(line)[1].address)
                           ELSE JoinSpace(Tail(StrippedParts(SplitDelimiters(Match4(line)[1]))))
                     /\ line = <<"2", ".", " ", "S", ".", " ", "C", ",", " ", "5", " ", "O">> => reply.calls[n] = <<"5", " ", "O">>
        /\ ~reply.raised =>
              \A j \in 1..Len(reply.used) :
                 LET k == reply.used[j].line
                     outcome == service.geocoder[GeocodedBefore(k) + 1]
                 IN  IF k \notin GeocodedLines
                     THEN "lat" \in DOMAIN reply.data[j]
                     ELSE /\ reply.data[j].address = reply.calls[GeocodedBefore(k) + 1]
                          /\ outcome = "found" =>
                                /\ DOMAIN reply.data[j] = {"name", "address", "lat", "lon"}
                                /\ reply.data[j].lat = GeocoderCoords.lat
                                /\ reply.data[j].lon = GeocoderCoords.lon
                          /\ outcome = "none" =>
                                DOMAIN reply.data[j] = {"name", "address"}
        /\ \A j \in 1..Len(reply.used) :
              ParsedLines[reply.used[j].line] = <<"2", ".", " ", "S", ".", " ", "C", ",", " ", "5", " ", "O">> =>
                  /\ reply.data[j].name = <<"S", ".", " ", "C">>
                  /\ reply.data[j].address = <<"5", " ", "O">>

\* the geocoder found the address of the first line and none for the second
C27_Witness ==
    /\ reply.op = "parse_facilities_to_df"
    /\ Len(ParsedLines) = 2
    /\ ParsedLines[1] = <<"2", ".", " ", "S", ".", " ", "C", ",", " ", "5", " ", "O">>
    /\ ParsedLines[2] = <<"4", ".", " ", "C", " ", "-", " ", "O">>
    /\ service.geocoder = <<"found", "none">>
    /\ reply.calls = <<<<"5", " ", "O">>, <<"O">>>>
    /\ Len(reply.data) = 2
    /\ DOMAIN reply.data[1] = {"name", "address", "lat", "lon"}
    /\ DOMAIN reply.data[2] = {"name", "address"}

====
